---- MODULE Spec2Model ----
(***************************************************************************)
(* CsvSerializer (src/src/index.ts): a column schema of                    *)
(* [header, key-path, zod type] triples mapping CSV rows to nested objects *)
(* (import) and back (export).                                             *)
(*                                                                         *)
(* Representation.                                                         *)
(*  - A JS string is a sequence of tokens; the token " " is a whitespace   *)
(*    character, every other token is a run of non-whitespace characters.  *)
(*  - A JS value is a pair <<typeof-tag, payload>>.  An object's payload   *)
(*    is a function from property names to values.                         *)
(*  - A key-path is the sequence of segments that 'a.b.c'.split('.')       *)
(*    yields (dset and dlv both split it before walking).                  *)
(*  - A CSV text is the sequence of its lines, a line the sequence of its  *)
(*    cells (strings): the text up to delimiter and quoting, which the     *)
(*    tokenizer and the writer own.  A blank line is a line of one empty   *)
(*    cell; the empty text is one blank line.                              *)
(***************************************************************************)
EXTENDS Integers, Sequences, FiniteSets, TLC

VARIABLES
    schema,     \* constructor argument: the ordered column triples
    opts,       \* constructor argument: { parse?, unparse? }
    op,         \* the last call made: "none", "import" or "export"
    csvStr,     \* import's argument
    entries,    \* export's argument
    papaRes,    \* Papa.parse's result in the last import
    data,       \* the decoded rows of the last import
    trace,      \* the stages the last call ran, in order
    objs,       \* import's return value: references into heap
    heap,       \* the objects the last import allocated
    out,        \* export's return value
    thrown,     \* what the last call threw
    reimport    \* the last import read the text the last export returned

vars == <<schema, opts, op, csvStr, entries, papaRes, data, trace, objs, heap, out,
          thrown, reimport>>

\* Largest number of columns of a schema, and of data rows / records of a call.
MaxCols == 2
MaxRows == 2

-----------------------------------------------------------------------------
\* JS values

Undefined == <<"undefined", <<>>>>
Str(s) == <<"string", s>>
Num(n) == <<"number", n>>
Bool(b) == <<"boolean", b>>
Obj(f) == <<"object", f>>
EmptyObj == Obj(<<>>)

TypeOf(v) == v[1]
IsNullish(v) == v[1] \in {"undefined", "null"}

\* t[k] for an ordinary property name k: undefined on a missing property and
\* on a primitive.
Get(t, k) ==
    IF TypeOf(t) = "object" /\ k \in DOMAIN t[2] THEN t[2][k] ELSE Undefined

\* t[k] = v on an object t.
Put(t, k, v) ==
    Obj([p \in DOMAIN t[2] \cup {k} |-> IF p = k THEN v ELSE t[2][p]])

\* String.prototype.trim
RECURSIVE TrimStart(_)
TrimStart(s) == IF s # <<>> /\ Head(s) = " " THEN TrimStart(Tail(s)) ELSE s

RECURSIVE TrimEnd(_)
TrimEnd(s) ==
    IF s # <<>> /\ s[Len(s)] = " " THEN TrimEnd(SubSeq(s, 1, Len(s) - 1)) ELSE s

Trim(s) == TrimEnd(TrimStart(s))

Digits == <<"0", "1", "2", "3", "4", "5", "6", "7", "8", "9">>
DigitOf(c) == (CHOOSE i \in 1..10 : Digits[i] = c) - 1

\* /^\d+$/ : one token per digit
IsDigits(s) == s # <<>> /\ \A i \in 1..Len(s) : \E d \in 1..10 : Digits[d] = s[i]

\* Number(s) on a digit string
RECURSIVE NumberOf(_)
NumberOf(s) ==
    IF s = <<>> THEN 0 ELSE 10 * NumberOf(SubSeq(s, 1, Len(s) - 1)) + DigitOf(s[Len(s)])

\* String(n) on a non-negative integer
RECURSIVE StringOf(_)
StringOf(n) ==
    IF n < 10 THEN <<Digits[n + 1]>> ELSE StringOf(n \div 10) \o <<Digits[(n % 10) + 1]>>

-----------------------------------------------------------------------------
\* dlv and dset

\* dlv(obj, key): walk the segments, undefined as soon as one is missing.
RECURSIVE Dlv(_, _)
Dlv(obj, key) == IF key = <<>> THEN obj ELSE Dlv(Get(obj, Head(key)), Tail(key))

\* dset(obj, keys, val): walk the segments; an intermediate that is already an
\* object is reused, anything else is replaced by a new {}; the last segment
\* is assigned val.  (Segments are ordinary names: not numeric, not __proto__.)
RECURSIVE Dset(_, _, _)
Dset(t, keys, val) ==
    LET k == Head(keys)
        x == Get(t, k)
    IN  IF Len(keys) = 1
        THEN Put(t, k, val)
        ELSE Put(t, k, Dset(IF TypeOf(x) = "object" THEN x ELSE EmptyObj, Tail(keys), val))

-----------------------------------------------------------------------------
\* Zod types of the columns: z.string(), the string<->int codec of the tests
\* (z.codec(z.string().regex(/^\d+$/), z.number().int(), ...)), z.number() and
\* z.boolean(), each possibly .optional().

ZString == "string"
ZIntCodec == "intCodec"
ZNumber == "number"
ZBoolean == "boolean"

ZodType(kind, optional) == [kind |-> kind, optional |-> optional]

\* zt.decode(v) / zt.encode(v): [ok |-> TRUE, value |-> ...] or [ok |-> FALSE].
Fail == [ok |-> FALSE, value |-> Undefined]
Ok(v) == [ok |-> TRUE, value |-> v]

ZodDecodeValue(zt, v) ==
    IF v = Undefined
    THEN IF zt.optional THEN Ok(Undefined) ELSE Fail
    ELSE CASE zt.kind = ZString -> IF TypeOf(v) = "string" THEN Ok(v) ELSE Fail
           [] zt.kind = ZIntCodec ->
                IF TypeOf(v) = "string" /\ IsDigits(v[2]) THEN Ok(Num(NumberOf(v[2]))) ELSE Fail
           [] zt.kind = ZNumber -> IF TypeOf(v) = "number" THEN Ok(v) ELSE Fail
           [] zt.kind = ZBoolean -> IF TypeOf(v) = "boolean" THEN Ok(v) ELSE Fail

ZodEncodeValue(zt, v) ==
    IF v = Undefined
    THEN IF zt.optional THEN Ok(Undefined) ELSE Fail
    ELSE CASE zt.kind = ZString -> IF TypeOf(v) = "string" THEN Ok(v) ELSE Fail
           [] zt.kind = ZIntCodec ->
                IF TypeOf(v) = "number" THEN Ok(Str(StringOf(v[2]))) ELSE Fail
           [] zt.kind = ZNumber -> IF TypeOf(v) = "number" THEN Ok(v) ELSE Fail
           [] zt.kind = ZBoolean -> IF TypeOf(v) = "boolean" THEN Ok(v) ELSE Fail

-----------------------------------------------------------------------------
\* Schema: MetaEntry = readonly [string, KP, ZT]

MetaEntry(h, kp, zt) == [hdr |-> h, kp |-> kp, zt |-> zt]

Headers(s) == [c \in 1..Len(s) |-> s[c].hdr]

-----------------------------------------------------------------------------
\* Papa.parse

\* The config import always passes, before the caller's options.
ParseDefaults ==
    [header |-> TRUE, skipEmptyLines |-> TRUE,
     transformHeader |-> "trim", transform |-> "trimOrUndefined"]

\* this.opts.parse ?? {}
OptsParse(o) == IF "parse" \in DOMAIN o THEN o.parse ELSE <<>>

\* { ...a, ...b }: where both name a key, b's value stands.
Spread(a, b) ==
    [k \in DOMAIN a \cup DOMAIN b |-> IF k \in DOMAIN b THEN b[k] ELSE a[k]]

\* The mutant of ParseConfig: the caller's options spread first.
ParseConfigDefaultsLast(o) == Spread(OptsParse(o), ParseDefaults)

\* The second argument of Papa.parse.
ParseConfig(o) == Spread(ParseDefaults, OptsParse(o))

\* transformHeader: (h) => h.trim(), or the caller's (modelled: h => h)
ApplyTransformHeader(f, h) == IF f = "trim" THEN Trim(h) ELSE h

\* The mutant of ApplyTransform: (v) => v.trim()
ApplyTransformTrimOnly(f, v) == IF f = "trimOrUndefined" THEN Str(Trim(v)) ELSE Str(v)

\* transform: (v) => v.trim() || undefined, or the caller's (modelled: v => v)
ApplyTransform(f, v) ==
    IF f = "trimOrUndefined"
    THEN IF Trim(v) = <<>> THEN Undefined ELSE Str(Trim(v))
    ELSE Str(v)

EmptyText == << << <<>> >> >>

\* papaparse's testEmptyLine for skipEmptyLines: true
IsEmptyLine(l) == Len(l) = 1 /\ l[1] = <<>>

RECURSIVE SumLen(_)
SumLen(ls) == IF ls = <<>> THEN 0 ELSE Len(Head(ls)) + SumLen(Tail(ls))

\* papaparse's guessDelimiter: a delimiter is found when the lines it counts
\* average more than 1.99 fields.
DelimiterGuessed(counted) ==
    Len(counted) > 0 /\ 100 * SumLen(counted) > 199 * Len(counted)

\* row[h] on a tokenizer row
Field(row, h) ==
    IF \E i \in 1..Len(row.keys) : row.keys[i] = h /\ i <= Len(row.cells)
    THEN row.cells[CHOOSE i \in 1..Len(row.keys) : row.keys[i] = h /\ i <= Len(row.cells)]
    ELSE Undefined

\* Papa.parse(text, cfg): { data, errors, meta }.  In header mode a row is
\* keyed by the (transformed) first line and a line whose field count differs
\* from the header's is reported; otherwise a row is an array.  meta keeps
\* the fields; its delimiter and linebreak are wire-level.
PapaParse(text, cfg) ==
    LET lines == IF text = EmptyText THEN <<>> ELSE text
        kept == IF cfg.skipEmptyLines
                THEN SelectSeq(lines, LAMBDA l : ~IsEmptyLine(l))
                ELSE lines
        delimErrors ==
            IF "delimiter" \notin DOMAIN cfg /\ ~DelimiterGuessed(kept)
            THEN <<[type |-> "Delimiter", code |-> "UndetectableDelimiter", row |-> -1]>>
            ELSE <<>>
        hasHeader == cfg.header /\ kept # <<>>
        fields == IF hasHeader
                  THEN [i \in 1..Len(kept[1]) |->
                            ApplyTransformHeader(cfg.transformHeader, kept[1][i])]
                  ELSE <<>>
        body == IF hasHeader THEN Tail(kept) ELSE kept
        rows == [i \in 1..Len(body) |->
                    [isArray |-> ~cfg.header,
                     keys |-> fields,
                     cells |-> [c \in 1..Len(body[i]) |->
                                   ApplyTransform(cfg.transform, body[i][c])]]]
        mismatch == [i \in 1..Len(body) |->
                        [type |-> "FieldMismatch",
                         code |-> IF Len(body[i]) < Len(fields)
                                  THEN "TooFewFields" ELSE "TooManyFields",
                         row |-> i - 1]]
        fieldErrors == IF cfg.header
                       THEN SelectSeq(mismatch,
                                LAMBDA e : Len(body[e.row + 1]) # Len(fields))
                       ELSE <<>>
    IN  [data |-> rows,
         errors |-> delimErrors \o fieldErrors,
         meta |-> [fields |-> fields, aborted |-> FALSE]]

-----------------------------------------------------------------------------
\* z.object(Object.fromEntries(schema.map(([h, _kp, zt]) => [h, zt]))).array().decode(rows)

\* The issues of row i (0-based index in the path), in schema order.
RECURSIVE RowIssues(_, _, _, _)
RowIssues(s, row, i, c) ==
    IF c > Len(s) THEN <<>>
    ELSE (IF ZodDecodeValue(s[c].zt, Field(row, s[c].hdr)).ok
          THEN <<>>
          ELSE <<[path |-> <<i, s[c].hdr>>, code |-> "invalid"]>>)
         \o RowIssues(s, row, i, c + 1)

RECURSIVE AllIssues(_, _, _)
AllIssues(s, rows, i) ==
    IF i > Len(rows) THEN <<>>
    ELSE (IF rows[i].isArray
          THEN <<[path |-> <<i - 1>>, code |-> "invalid_type"]>>
          ELSE RowIssues(s, rows[i], i - 1, 1))
         \o AllIssues(s, rows, i + 1)

\* The decoded row: one property per schema header.
DecodedRow(s, row) ==
    [h \in {s[c].hdr : c \in 1..Len(s)} |->
        LET c == CHOOSE d \in 1..Len(s) : s[d].hdr = h /\ \A e \in 1..Len(s) : s[e].hdr = h => e <= d
        IN  ZodDecodeValue(s[c].zt, Field(row, h)).value]

\* decode: every issue of every row is collected; any issue fails the whole.
ZodDecode(s, rows) ==
    LET issues == AllIssues(s, rows, 1)
    IN  [issues |-> issues,
         value |-> IF issues = <<>>
                   THEN [i \in 1..Len(rows) |-> DecodedRow(s, rows[i])]
                   ELSE <<>>]

-----------------------------------------------------------------------------
\* CsvSerializer.import

NoError == [name |-> "none"]

\* Object.assign(AggregateError(papaRes.errors), { meta: papaRes.meta })
AggregateError(res) == [name |-> "AggregateError", errors |-> res.errors, meta |-> res.meta]

\* What z.decode throws
ZodError(issues) == [name |-> "ZodError", issues |-> issues]

\* The mutant of SetColumns: each column is set on an object of its own, which
\* is then copied over obj property by property (Object.assign).
RECURSIVE SetColumnsAssign(_, _, _, _)
SetColumnsAssign(s, obj, row, j) ==
    IF j > Len(s) THEN obj
    ELSE LET one == Dset(EmptyObj, s[j].kp, row[s[j].hdr])
         IN  SetColumnsAssign(s, Put(obj, s[j].kp[1], one[2][s[j].kp[1]]), row, j + 1)

\* for (const [hdr, kp] of this.schema) dset(obj, kp, row[hdr]), from column j on
RECURSIVE SetColumns(_, _, _, _)
SetColumns(s, obj, row, j) ==
    IF j > Len(s) THEN obj
    ELSE SetColumns(s, Dset(obj, s[j].kp, row[s[j].hdr]), row, j + 1)

\* The mutant of MapRows: obj is created once, outside the callback.
MapRowsSharedObj(s, rows) ==
    LET F[i \in 0..Len(rows)] ==
            IF i = 0 THEN EmptyObj ELSE SetColumns(s, F[i - 1], rows[i], 1)
    IN  [objs |-> [i \in 1..Len(rows) |-> 1],
         heap |-> IF rows = <<>> THEN <<>> ELSE <<F[Len(rows)]>>]

\* data.map((row) => { const obj = {}; ...; return obj; }): the i-th callback
\* allocates object i and fills it from row i.
MapRows(s, rows) ==
    [objs |-> [i \in 1..Len(rows) |-> i],
     heap |-> [i \in 1..Len(rows) |-> SetColumns(s, EmptyObj, rows[i], 1)]]

\* The mutant of ImportResult: the tokenizer's errors are looked at after
\* validation.
ImportResultValidateFirst(s, o, text) ==
    LET res == PapaParse(text, ParseConfig(o))
        dec == ZodDecode(s, res.data)
        built == MapRows(s, dec.value)
    IN  IF dec.issues # <<>>
        THEN [papaRes |-> res, data |-> <<>>, trace |-> <<"parse", "decode">>,
              objs |-> <<>>, heap |-> <<>>, thrown |-> ZodError(dec.issues)]
        ELSE IF Len(res.errors) > 0
        THEN [papaRes |-> res, data |-> <<>>, trace |-> <<"parse", "decode">>,
              objs |-> <<>>, heap |-> <<>>, thrown |-> AggregateError(res)]
        ELSE [papaRes |-> res, data |-> dec.value, trace |-> <<"parse", "decode", "build">>,
              objs |-> built.objs, heap |-> built.heap, thrown |-> NoError]

\* The mutant of ImportResult: the rows that fail validation are dropped and
\* the others are returned.
ImportResultLenient(s, o, text) ==
    LET res == PapaParse(text, ParseConfig(o))
        good == SelectSeq(res.data, LAMBDA r : AllIssues(s, <<r>>, 1) = <<>>)
        dec == ZodDecode(s, good)
        built == MapRows(s, dec.value)
    IN  IF Len(res.errors) > 0
        THEN [papaRes |-> res, data |-> <<>>, trace |-> <<"parse">>,
              objs |-> <<>>, heap |-> <<>>, thrown |-> AggregateError(res)]
        ELSE [papaRes |-> res, data |-> dec.value, trace |-> <<"parse", "decode", "build">>,
              objs |-> built.objs, heap |-> built.heap, thrown |-> NoError]

\* import(csvStr): tokenize; throw on any tokenizer error; decode all rows,
\* which throws on any issue; build one object per decoded row.
ImportResult(s, o, text) ==
    LET res == PapaParse(text, ParseConfig(o))
        dec == ZodDecode(s, res.data)
        built == MapRows(s, dec.value)
    IN  IF Len(res.errors) > 0
        THEN [papaRes |-> res, data |-> <<>>, trace |-> <<"parse">>,
              objs |-> <<>>, heap |-> <<>>, thrown |-> AggregateError(res)]
        ELSE IF dec.issues # <<>>
        THEN [papaRes |-> res, data |-> <<>>, trace |-> <<"parse", "decode">>,
              objs |-> <<>>, heap |-> <<>>, thrown |-> ZodError(dec.issues)]
        ELSE [papaRes |-> res, data |-> dec.value, trace |-> <<"parse", "decode", "build">>,
              objs |-> built.objs, heap |-> built.heap, thrown |-> NoError]

-----------------------------------------------------------------------------
\* CsvSerializer.export

\* The mutant of Coalesce: || in place of ??
CoalesceFalsy(v) ==
    IF IsNullish(v) \/ v \in {Num(0), Str(<<>>), Bool(FALSE)} THEN Str(<<>>) ELSE v

\* x ?? ''
Coalesce(v) == IF IsNullish(v) THEN Str(<<>>) ELSE v

\* The mutant of HdrRow: the headers sorted by key-path depth.
HdrRowByDepth(s) ==
    LET shallow == SelectSeq(s, LAMBDA m : Len(m.kp) = 1)
        deep == SelectSeq(s, LAMBDA m : Len(m.kp) > 1)
    IN  [c \in 1..Len(s) |-> Str((shallow \o deep)[c].hdr)]

\* this.schema.map(([h]) => h)
HdrRow(s) == [c \in 1..Len(s) |-> Str(s[c].hdr)]

\* The mutant of EncodedRow: the path is read property by property
\* (e.meta.scores.primary), which throws on a missing container.
EncodedRowDirect(s, e) ==
    [c \in 1..Len(s) |->
        IF \E n \in 1..(Len(s[c].kp) - 1) : Dlv(e, SubSeq(s[c].kp, 1, n)) = Undefined
        THEN Fail
        ELSE ZodEncodeValue(s[c].zt, Dlv(e, s[c].kp))]

\* zt.encode(dlv(e, kp)) for each column of the schema, in order
EncodedRow(s, e) == [c \in 1..Len(s) |-> ZodEncodeValue(s[c].zt, Dlv(e, s[c].kp))]

\* The mutant of DataRow: the cells in reverse schema order.
DataRowReversed(s, e) ==
    [c \in 1..Len(s) |-> Coalesce(EncodedRow(s, e)[Len(s) + 1 - c].value)]

\* this.schema.map(([_h, kp, zt]) => zt.encode(dlv(e, kp)) ?? '')
DataRow(s, e) == [c \in 1..Len(s) |-> Coalesce(EncodedRow(s, e)[c].value)]

\* How Papa.unparse writes a cell value.
CellText(v) ==
    CASE IsNullish(v) -> <<>>
      [] TypeOf(v) = "string" -> v[2]
      [] TypeOf(v) = "number" -> StringOf(v[2])
      [] TypeOf(v) = "boolean" -> IF v[2] THEN <<"true">> ELSE <<"false">>

\* Papa.unparse(rows, cfg): one line per row, in order; a row without cells
\* is written as a blank line.  cfg is wire-level (delimiter, quoting).
Unparse(rows, cfg) ==
    [i \in 1..Len(rows) |->
        IF rows[i] = <<>> THEN << <<>> >>
        ELSE [c \in 1..Len(rows[i]) |-> CellText(rows[i][c])]]

\* this.opts.unparse
OptsUnparse(o) == IF "unparse" \in DOMAIN o THEN o.unparse ELSE <<>>

\* export(entries): an encode that throws ends the call; otherwise the header
\* row and one row per entry go through Papa.unparse.
ExportResult(s, o, es) ==
    IF \E i \in 1..Len(es) : \E c \in 1..Len(s) : ~EncodedRow(s, es[i])[c].ok
    THEN [out |-> <<>>, trace |-> <<"encode">>,
          thrown |-> ZodError(<<[path |-> <<>>, code |-> "invalid"]>>)]
    ELSE [out |-> Unparse(<<HdrRow(s)>> \o [i \in 1..Len(es) |-> DataRow(s, es[i])],
                          OptsUnparse(o)),
          trace |-> <<"encode", "unparse">>,
          thrown |-> NoError]

-----------------------------------------------------------------------------
\* The serializers and the arguments the calls are tried on

\* Columns after the tests' schemas: a required string, two optional columns
\* under the shared prefix meta, and an optional z.number().
Root == MetaEntry(<<"Root">>, <<"root">>, ZodType(ZString, FALSE))
Status == MetaEntry(<<"Status">>, <<"meta", "status">>, ZodType(ZString, TRUE))
Score == MetaEntry(<<"Score">>, <<"meta", "scores", "primary">>, ZodType(ZIntCodec, TRUE))
Count == MetaEntry(<<"Count">>, <<"count">>, ZodType(ZNumber, TRUE))
\* A column whose key-path is a prefix of Status's and Score's.
Meta == MetaEntry(<<"Meta">>, <<"meta">>, ZodType(ZString, TRUE))

\* An optional z.boolean().
Flag == MetaEntry(<<"Flag">>, <<"flag">>, ZodType(ZBoolean, TRUE))

ColumnPool == {Root, Status, Score, Count}
NestedPool == ColumnPool \cup {Meta}
FalsyPool == {Root, Count, Flag}

\* The schemas of at most MaxCols distinct columns of the pool, in any order.
Schemas(pool) ==
    UNION {{s \in [1..n -> pool] : \A i, j \in 1..n : i # j => s[i] # s[j]} : n \in 0..MaxCols}

\* No second argument, and the README's tab-separated configuration.
NoOpts == <<>>
TsvOpts == [parse |-> [delimiter |-> "\t"], unparse |-> [delimiter |-> "\t"]]

\* Parse options that name the keys import sets itself.
ParseOptions ==
    {<<>>,
     [delimiter |-> "\t"],
     [header |-> FALSE],
     [skipEmptyLines |-> FALSE, delimiter |-> "\t"],
     [transformHeader |-> "identity"],
     [transform |-> "identity"]}

\* Cells: "1" (a string every string codec of the pool accepts), the empty
\* cell, a whitespace-only cell and a padded non-digit.
One == <<"1">>
OddCells == {<<>>, <<" ">>, <<" ", "a", " ">>}

\* Data lines of n cells, all "1" but at most one; a blank line and a line of
\* one whitespace cell.
RowSamples(n) ==
    LET base == [c \in 1..n |-> One]
    IN  {base} \cup {[base EXCEPT ![c] = x] : c \in 1..n, x \in OddCells}
        \cup {<< <<>> >>, << <<" ">> >>}

\* The header line of a schema as export writes it, and with padded names.
HeaderLine(s, pad) ==
    IF s = <<>> THEN << <<>> >>
    ELSE [c \in 1..Len(s) |-> IF pad THEN <<" ">> \o s[c].hdr \o <<" ">> ELSE s[c].hdr]

Texts(s) ==
    {<<HeaderLine(s, pad)>> \o body :
        pad \in BOOLEAN,
        body \in UNION {[1..n -> RowSamples(Len(s))] : n \in 0..MaxRows}}

\* Leaf values: what decoding "1" gives, and per type the other values tried.
BaseValue(zt) ==
    CASE zt.kind = ZString -> Str(One)
      [] zt.kind = ZBoolean -> Bool(TRUE)
      [] OTHER -> Num(1)
OddValues(zt) ==
    CASE zt.kind = ZString -> {Str(<<" ", "a", " ">>), Str(<<>>)}
      [] zt.kind = ZBoolean -> {Bool(FALSE)}
      [] OTHER -> {Num(0)}

\* Marks a leaf that is not set at all.
Absent == <<"absent", <<>>>>

RECURSIVE RecordOf(_, _, _, _)
RecordOf(s, vals, obj, c) ==
    IF c > Len(s) THEN obj
    ELSE RecordOf(s, vals,
                  IF vals[c] = Absent THEN obj ELSE Dset(obj, s[c].kp, vals[c]), c + 1)

\* Records with every leaf at its base value but at most one, which is
\* another value, undefined, or not set.
RecordSamples(s) ==
    LET base == [c \in 1..Len(s) |-> BaseValue(s[c].zt)]
        leaves == {base} \cup
                  UNION {{[base EXCEPT ![c] = x] :
                             x \in OddValues(s[c].zt) \cup {Undefined, Absent}} :
                         c \in 1..Len(s)}
    IN  {RecordOf(s, v, EmptyObj, 1) : v \in leaves}

EntriesSamples(s) == UNION {[1..n -> RecordSamples(s)] : n \in 0..MaxRows}

-----------------------------------------------------------------------------
\* The state machine: construction, then any sequence of calls.

InitWith(pool, options) ==
    /\ schema \in Schemas(pool)
    /\ opts \in options
    /\ op = "none"
    /\ csvStr = <<>>
    /\ entries = <<>>
    /\ papaRes = [data |-> <<>>, errors |-> <<>>, meta |-> <<>>]
    /\ data = <<>>
    /\ trace = <<>>
    /\ objs = <<>>
    /\ heap = <<>>
    /\ out = <<>>
    /\ thrown = NoError
    /\ reimport = FALSE

Init == InitWith(ColumnPool, {NoOpts, TsvOpts})

DoImport(text, re) ==
    \E r \in {ImportResult(schema, opts, text)} :
        /\ op' = "import"
        /\ csvStr' = text
        /\ reimport' = re
        /\ entries' = IF re THEN entries ELSE <<>>
        /\ papaRes' = r.papaRes
        /\ data' = r.data
        /\ trace' = r.trace
        /\ objs' = r.objs
        /\ heap' = r.heap
        /\ thrown' = r.thrown
        /\ out' = <<>>
        /\ UNCHANGED <<schema, opts>>

\* The serializer has no field that a call assigns (schema and opts are set by
\* the constructor only), so what a call does depends on its argument alone:
\* a call on an argument of the caller's is taken from the constructed state,
\* and the calls that follow it are the ones made on its result.

\* import(csvStr) on a text of the caller's
Import == op = "none" /\ \E text \in Texts(schema) : DoImport(text, FALSE)

\* import(export(entries)): import on the text the last export returned
Reimport == op = "export" /\ thrown = NoError /\ DoImport(out, TRUE)

DoExport(es) ==
    \E r \in {ExportResult(schema, opts, es)} :
        /\ op' = "export"
        /\ entries' = es
        /\ out' = r.out
        /\ trace' = r.trace
        /\ thrown' = r.thrown
        /\ csvStr' = <<>>
        /\ reimport' = FALSE
        /\ papaRes' = [data |-> <<>>, errors |-> <<>>, meta |-> <<>>]
        /\ data' = <<>>
        /\ objs' = <<>>
        /\ heap' = <<>>
        /\ UNCHANGED <<schema, opts>>

\* export(entries) on records of the caller's
Export == op = "none" /\ \E es \in EntriesSamples(schema) : DoExport(es)

\* export(import(csvStr)): export on the records the last import returned
Reexport ==
    /\ op = "import"
    /\ thrown = NoError
    /\ DoExport([i \in 1..Len(objs) |-> heap[objs[i]]])

Next == Import \/ Reimport \/ Export \/ Reexport

Spec == Init /\ [][Next]_vars

\* Schemas that may hold a key-path that is a prefix of another's.
InitPaths == InitWith(NestedPool, {NoOpts, TsvOpts})
SpecPaths == InitPaths /\ [][Next]_vars

\* Schemas whose encode results include the falsy number and the falsy boolean.
InitFalsy == InitWith(FalsyPool, {NoOpts, TsvOpts})
SpecFalsy == InitFalsy /\ [][Next]_vars

\* Serializers whose parse options name keys that import sets itself.
InitParse == InitWith(ColumnPool, {[parse |-> p] : p \in ParseOptions})
SpecParse == InitParse /\ [][Next]_vars

-----------------------------------------------------------------------------
\* Vocabulary of the properties

NCols == Len(schema)
Cols == 1..Len(schema)

\* The last import returned (did not throw).
Returned == op = "import" /\ thrown = NoError

\* The records import returned, dereferenced.
Records == [i \in 1..Len(objs) |-> heap[objs[i]]]

\* The input read as the spec words it: the non-blank lines; the first of
\* them is the header line and the others are the data rows.
NonBlankLines(text) ==
    SelectSeq(IF text = EmptyText THEN <<>> ELSE text, LAMBDA l : ~IsEmptyLine(l))
DataLines(text) ==
    IF NonBlankLines(text) = <<>> THEN <<>> ELSE Tail(NonBlankLines(text))
HeaderCells(text) ==
    IF NonBlankLines(text) = <<>> THEN <<>> ELSE Head(NonBlankLines(text))

\* The raw cell of column c in a data line under the header cells hdrs: the
\* cell under the header that, trimmed, is the column's; no cell when no
\* header is.
HasCell(hdrs, line, c) ==
    \E p \in 1..Len(hdrs) : Trim(hdrs[p]) = schema[c].hdr /\ p <= Len(line)
RawCell(hdrs, line, c) ==
    line[CHOOSE p \in 1..Len(hdrs) : Trim(hdrs[p]) = schema[c].hdr /\ p <= Len(line)]

IsBlankCell(cell) == Trim(cell) = <<>>

\* What a cell is to the column's contract: trimmed, absent when blank.
CellInput(hdrs, line, c) ==
    IF ~HasCell(hdrs, line, c) \/ IsBlankCell(RawCell(hdrs, line, c))
    THEN Undefined
    ELSE Str(Trim(RawCell(hdrs, line, c)))

CellDecoded(hdrs, line, c) == ZodDecodeValue(schema[c].zt, CellInput(hdrs, line, c))

\* The header cells and the data rows of the last import's text.
Hdrs == {HeaderCells(csvStr)}
Rows == {DataLines(csvStr)}

IsPrefix(a, b) == Len(a) <= Len(b) /\ SubSeq(b, 1, Len(a)) = a

\* No column's key-path is a prefix of (or equal to) another column's.
PrefixFree(s) ==
    \A c1, c2 \in 1..Len(s) : c1 # c2 => ~IsPrefix(s[c1].kp, s[c2].kp)

-----------------------------------------------------------------------------
\* C2: import is all-or-nothing.  Whenever the tokenizer reported no error and
\* some cell of some data row fails its column's contract, whichever row it is
\* in, import throws one validation error that names every failing cell, and
\* returns no record at all.
C2_AllOrNothing ==
    (/\ op = "import"
     /\ papaRes.errors = <<>>
     /\ \E hdrs \in Hdrs, rows \in Rows : \E i \in 1..Len(rows) : \E c \in Cols :
            ~CellDecoded(hdrs, rows[i], c).ok)
    => /\ thrown.name = "ZodError"
       /\ objs = <<>>
       /\ heap = <<>>
       /\ \A hdrs \in Hdrs, rows \in Rows : \A i \in 1..Len(rows) : \A c \in Cols :
              ~CellDecoded(hdrs, rows[i], c).ok
              => \E n \in 1..Len(thrown.issues) :
                     thrown.issues[n].path = <<i - 1, schema[c].hdr>>

\* Two data rows, the first valid in every cell and the second not: import
\* threw and returned nothing.
C2_Witness ==
    /\ op = "import"
    /\ papaRes.errors = <<>>
    /\ \E hdrs \in Hdrs, rows \in Rows :
           /\ Len(rows) = 2
           /\ \A c \in Cols : CellDecoded(hdrs, rows[1], c).ok
           /\ \E c \in Cols : ~CellDecoded(hdrs, rows[2], c).ok
    /\ thrown.name = "ZodError"
    /\ objs = <<>>

-----------------------------------------------------------------------------
\* C4: when the tokenizer reports at least one error, import throws an
\* AggregateError holding every reported error and the tokenizer's meta, and
\* neither validation nor object building has run: no validation error, no
\* record.
C4_TokenizerErrorFirst ==
    (op = "import" /\ Len(papaRes.errors) > 0)
    => /\ thrown.name = "AggregateError"
       /\ thrown.errors = papaRes.errors
       /\ thrown.meta = papaRes.meta
       /\ trace = <<"parse">>
       /\ data = <<>>
       /\ objs = <<>>
       /\ heap = <<>>

\* The tokenizer reported two errors on rows that would also fail validation,
\* and the AggregateError was thrown.
C4_Witness ==
    /\ op = "import"
    /\ Len(papaRes.errors) >= 2
    /\ AllIssues(schema, papaRes.data, 1) # <<>>
    /\ thrown.name = "AggregateError"

-----------------------------------------------------------------------------
-----------------------------------------------------------------------------
\* C10: when import returns, it returns one record per non-blank data row, in
\* the rows' order: the i-th record is a fresh object (no other row's record
\* is the same object) that holds the decoded values of the i-th data row at
\* the columns' key-paths and nothing else.

\* The object that holds exactly the decoded values of one data line.
RECURSIVE ObjectOfLine(_, _, _, _)
ObjectOfLine(hdrs, line, obj, c) ==
    IF c > NCols THEN obj
    ELSE ObjectOfLine(hdrs, line,
                      Dset(obj, schema[c].kp, CellDecoded(hdrs, line, c).value), c + 1)

C10_OneRecordPerRowInOrder ==
    Returned
    => \A hdrs \in Hdrs, rows \in Rows :
           /\ Len(objs) = Len(rows)
           /\ \A i, j \in 1..Len(objs) : i # j => objs[i] # objs[j]
           /\ \A i \in 1..Len(objs) :
                  heap[objs[i]] = ObjectOfLine(hdrs, rows[i], EmptyObj, 1)

\* import returned two different records, the first from the first data row.
C10_Witness ==
    /\ Returned
    /\ Len(objs) = 2
    /\ Records[1] # Records[2]
    /\ Records[1] = ObjectOfLine(HeaderCells(csvStr), DataLines(csvStr)[1], EmptyObj, 1)

-----------------------------------------------------------------------------
\* Vocabulary of the export properties

Exported == op = "export" /\ thrown = NoError

\* Column c has no data in record e: its leaf, or a container on its
\* key-path, is absent (or the leaf is undefined).
IsMissing(e, c) == Dlv(e, schema[c].kp) = Undefined

\* The encode result of column c for record e.
Encoded(e, c) == ZodEncodeValue(schema[c].zt, Dlv(e, schema[c].kp))

-----------------------------------------------------------------------------
-----------------------------------------------------------------------------
\* C6: on export a nullish encode result is written as the empty cell, and
\* every other encode result, the falsy boolean false, the falsy number 0 and
\* the empty string included, is written verbatim (as Papa.unparse writes
\* that value), never replaced by the empty cell.
C6_OnlyNullishBecomesEmpty ==
    Exported
    => \A i \in 1..Len(entries) : \A c \in Cols :
           /\ IsNullish(Encoded(entries[i], c).value) => out[i + 1][c] = <<>>
           /\ ~IsNullish(Encoded(entries[i], c).value)
              => out[i + 1][c] = CellText(Encoded(entries[i], c).value)
           /\ Encoded(entries[i], c).value = Num(0) => out[i + 1][c] = <<"0">>
           /\ Encoded(entries[i], c).value = Bool(FALSE) => out[i + 1][c] = <<"false">>

\* An export in which one encode result is undefined, written as the empty
\* cell, and another is the boolean false, written "false".
C6_Witness ==
    /\ Exported
    /\ \E i, j \in 1..Len(entries) : \E c, d \in Cols :
           /\ Encoded(entries[i], c).value = Undefined
           /\ out[i + 1][c] = <<>>
           /\ Encoded(entries[j], d).value = Bool(FALSE)
           /\ out[j + 1][d] = <<"false">>

-----------------------------------------------------------------------------
\* C7: header fidelity.  The first line of export's output is the schema's
\* headers in schema order, also for no records; there is one line per record
\* after it, in the records' order, and its c-th cell is the cell of the
\* schema's c-th column, whatever the depth of the key-paths.

\* The cell a schema of the one column m writes for record e.
CellOfColumn(m, e) == ExportResult(<<m>>, opts, <<e>>).out[2][1]

C7_HeaderFidelity ==
    Exported
    => /\ Len(out) = 1 + Len(entries)
       /\ IF NCols = 0 THEN out[1] = << <<>> >>
          ELSE /\ Len(out[1]) = NCols
               /\ \A c \in Cols : out[1][c] = schema[c].hdr
       /\ \A i \in 1..Len(entries) :
              /\ NCols > 0 => Len(out[i + 1]) = NCols
              /\ \A c \in Cols : out[i + 1][c] = CellOfColumn(schema[c], entries[i])

\* An export of two records under a schema whose deeper column comes first,
\* with cells that differ within a row and between the rows.
C7_Witness ==
    /\ Exported
    /\ Len(entries) = 2
    /\ NCols = 2
    /\ Len(schema[1].kp) > Len(schema[2].kp)
    /\ out[1] = <<schema[1].hdr, schema[2].hdr>>
    /\ out[2][1] # out[2][2]
    /\ out[2] # out[3]

-----------------------------------------------------------------------------
\* Vocabulary of the round trip

\* The schema's codecs are inverse pairs between cell strings and values.
InverseCodecs(s) == \A c \in 1..Len(s) : s[c].zt.kind \in {ZString, ZIntCodec}

\* v is an output of the zod type zt.
IsOutputOf(zt, v) ==
    IF v = Undefined THEN zt.optional
    ELSE IF zt.kind = ZString THEN TypeOf(v) = "string"
    ELSE IF zt.kind = ZBoolean THEN TypeOf(v) = "boolean" ELSE TypeOf(v) = "number"

\* The records are records over the schema: each column's leaf is an output
\* of its type (absent or undefined only where the column is optional).
OverSchema(s, es) ==
    \A i \in 1..Len(es) : \A c \in 1..Len(s) : IsOutputOf(s[c].zt, Dlv(es[i], s[c].kp))

\* Deep equality up to absence: a value with its undefined leaves, and the
\* containers this leaves empty, taken out.
RECURSIVE Norm(_)
Norm(v) ==
    IF TypeOf(v) # "object" THEN v
    ELSE LET keep == {k \in DOMAIN v[2] : Norm(v[2][k]) # Undefined}
         IN  IF keep = {} THEN Undefined ELSE Obj([k \in keep |-> Norm(v[2][k])])

DeepEqual(a, b) ==
    Len(a) = Len(b) /\ \A i \in 1..Len(a) : Norm(a[i]) = Norm(b[i])

\* Every string leaf is non-empty and has no leading or trailing whitespace.
TrimmedStrings(s, es) ==
    \A i \in 1..Len(es) : \A c \in 1..Len(s) :
        LET v == Dlv(es[i], s[c].kp)
        IN  TypeOf(v) = "string" => v[2] # <<>> /\ Trim(v[2]) = v[2]

-----------------------------------------------------------------------------
-----------------------------------------------------------------------------
\* C8 as stated: when two columns' key-paths share a prefix, every imported
\* record holds one container at the shared prefix through which both
\* columns' values are read: the later column's set has not removed or
\* overwritten the earlier column's value, in either schema order.

\* The key-paths start with the same segment.
SharePrefix(kp1, kp2) == kp1[1] = kp2[1]

BothValuesHeld(rec, row, c1, c2) ==
    /\ TypeOf(Get(rec, schema[c1].kp[1])) = "object"
    /\ Dlv(rec, schema[c1].kp) = row[schema[c1].hdr]
    /\ Dlv(rec, schema[c2].kp) = row[schema[c2].hdr]

C8_PathSharing ==
    Returned
    => \A i \in 1..Len(objs) : \A c1, c2 \in Cols :
           (c1 < c2 /\ SharePrefix(schema[c1].kp, schema[c2].kp))
           => BothValuesHeld(Records[i], data[i], c1, c2)

\* C8 as amended: the same, in a schema where no column's key-path is a
\* prefix of another column's.
C8_PathSharingPrefixFree ==
    (Returned /\ PrefixFree(schema))
    => \A i \in 1..Len(objs) : \A c1, c2 \in Cols :
           (c1 < c2 /\ SharePrefix(schema[c1].kp, schema[c2].kp))
           => BothValuesHeld(Records[i], data[i], c1, c2)

\* An imported record in which meta holds a value for both of two columns,
\* the deeper key-path set first.
C8_Witness ==
    /\ Returned /\ PrefixFree(schema)
    /\ NCols = 2
    /\ SharePrefix(schema[1].kp, schema[2].kp)
    /\ Len(schema[1].kp) > Len(schema[2].kp)
    /\ \E i \in 1..Len(objs) :
           /\ Dlv(Records[i], schema[1].kp) # Undefined
           /\ Dlv(Records[i], schema[2].kp) # Undefined
           /\ DOMAIN Get(Records[i], "meta")[2] = {"scores", "status"}

-----------------------------------------------------------------------------
\* Vocabulary of the tokenizer call's behaviours

AllLines(text) == IF text = EmptyText THEN <<>> ELSE text

\* The caller's parse options name key k.
Named(k) == k \in DOMAIN OptsParse(opts)

\* What the tokenizer returns for the last import's text when: hdr, the first
\* line it keeps is the header; skip, blank lines are not kept; th, header
\* names are trimmed; tr, cells are trimmed and a blank cell is undefined.
TokenizedAs(hdr, skip, th, tr) ==
    LET kept == IF skip THEN NonBlankLines(csvStr) ELSE AllLines(csvStr)
        body == IF hdr /\ kept # <<>> THEN Tail(kept) ELSE kept
    IN  /\ Len(papaRes.data) = Len(body)
        /\ \A i \in 1..Len(body) :
               /\ papaRes.data[i].isArray = ~hdr
               /\ hdr => papaRes.data[i].keys =
                             [p \in 1..Len(kept[1]) |->
                                 IF th THEN Trim(kept[1][p]) ELSE kept[1][p]]
               /\ papaRes.data[i].cells =
                      [p \in 1..Len(body[i]) |->
                          IF tr
                          THEN IF IsBlankCell(body[i][p])
                               THEN Undefined ELSE Str(Trim(body[i][p]))
                          ELSE Str(body[i][p])]

-----------------------------------------------------------------------------
\* C9 as stated: whatever the parse options, import's tokenizer call treats
\* the first line as the header, skips blank lines, trims header names, trims
\* cells and turns a blank cell into undefined.
C9_FiveBehavioursAlways == op = "import" => TokenizedAs(TRUE, TRUE, TRUE, TRUE)

\* C9 as amended: each of these behaviours is in force when the parse options
\* do not name its key (header, skipEmptyLines, transformHeader, transform);
\* for a key they name, the caller's value is in force instead.
C9_FiveBehavioursUnlessNamed ==
    op = "import"
    => TokenizedAs(IF Named("header") THEN OptsParse(opts).header ELSE TRUE,
                   IF Named("skipEmptyLines") THEN OptsParse(opts).skipEmptyLines ELSE TRUE,
                   IF Named("transformHeader")
                   THEN OptsParse(opts).transformHeader = "trim" ELSE TRUE,
                   IF Named("transform")
                   THEN OptsParse(opts).transform = "trimOrUndefined" ELSE TRUE)

\* An import under non-empty parse options (a delimiter) of a text with padded
\* header names, a blank line and a whitespace-only cell, showing all five.
C9_Witness ==
    /\ Returned
    /\ OptsParse(opts) = [delimiter |-> "\t"]
    /\ NCols = 2
    /\ Len(csvStr) = 3
    /\ csvStr[1][1] # Trim(csvStr[1][1])
    /\ IsEmptyLine(csvStr[2])
    /\ \E p \in 1..Len(csvStr[3]) : csvStr[3][p] = <<" ">>
    /\ Len(papaRes.data) = 1
    /\ TokenizedAs(TRUE, TRUE, TRUE, TRUE)

====
